---- MODULE Spec2Model ----
\* Verification model of the streaming response demultiplexer `parseStreaming`
\* (web/src/app/utils/parse-streaming.ts, single-stream variant, and its
\* multi-request sibling).  Text is modelled as a sequence of one-character
\* strings, so that substring search, split, trim, the citation regular
\* expressions and JSON.parse all operate on characters, as the code does.
EXTENDS Integers, Sequences, FiniteSets, TLC

\* ------------------------------------------------------ callback records
\* One invocation of a callback: which one (cb) and with what value (v).  Two
\* invocations are told apart by cb first.
OnSources(value) == [cb |-> "onSources", v |-> value]

OnMarkdown(value) == [cb |-> "onMarkdown", v |-> value]

OnRelates(value) == [cb |-> "onRelates", v |-> value]

OnError(status) == [cb |-> "onError", v |-> status]

\* ------------------------------------------------------------------ text
\* The two sentinel literals of parse-streaming.ts.
LLM_SPLIT == <<"_","_","L","L","M","_","R","E","S","P","O","N","S","E","_","_">>

RELATED_SPLIT == <<"_","_","R","E","L","A","T","E","D","_","Q","U","E","S","T","I","O","N","S","_","_">>

\* The placeholder prefix of line 98 (six code points, named by code point).
PLACEHOLDER == <<"U+63D0","U+51FA","U+7684","U+95EE","U+9898","U+FF1A">>

Digit == {"0","1","2","3","4","5","6","7","8","9"}

\* White space as String.prototype.trim and JSON see it (the part of it that
\* the modelled streams can contain).
TrimSpace == {" ", "\n", "\t", "\r"}

\* s.startsWith(pat, i-1) for 1-based i.
IsAt(s, i, pat) ==
  /\ i >= 1
  /\ i + Len(pat) - 1 <= Len(s)
  /\ SubSeq(s, i, i + Len(pat) - 1) = pat

RECURSIVE IndexFrom(_, _, _)
\* s.indexOf(pat, i-1) + 1: the first 1-based index >= i where pat occurs, 0 if none.
IndexFrom(s, pat, i) ==
  IF i + Len(pat) - 1 > Len(s) THEN 0
  ELSE IF SubSeq(s, i, i + Len(pat) - 1) = pat THEN i
  ELSE IndexFrom(s, pat, i + 1)

\* s.includes(pat)
includes(s, pat) == IndexFrom(s, pat, 1) # 0

RECURSIVE split(_, _)
\* s.split(pat) for a non-empty separator: all the parts, in order.
split(s, pat) ==
  LET k == IndexFrom(s, pat, 1)
  IN IF k = 0 THEN <<s>>
     ELSE <<SubSeq(s, 1, k - 1)>> \o split(SubSeq(s, k + Len(pat), Len(s)), pat)

RECURSIVE TrimStart(_)
TrimStart(s) ==
  IF s # <<>> /\ s[1] \in TrimSpace THEN TrimStart(Tail(s)) ELSE s

RECURSIVE TrimEnd(_)
TrimEnd(s) ==
  IF s # <<>> /\ s[Len(s)] \in TrimSpace THEN TrimEnd(SubSeq(s, 1, Len(s) - 1)) ELSE s

\* s.trim()
trim(s) == TrimEnd(TrimStart(s))

startsWith(s, pat) == IsAt(s, 1, pat)

endsWith(s, pat) == IsAt(s, Len(s) - Len(pat) + 1, pat)

RECURSIVE DigitsEnd(_, _)
\* The index just after the longest run of digits that starts at i.
DigitsEnd(s, i) ==
  IF i <= Len(s) /\ s[i] \in Digit THEN DigitsEnd(s, i + 1) ELSE i

\* ------------------------------------------- citation normalization
ITATION == <<"i","t","a","t","i","o","n">>

CITATION == <<"c">> \o ITATION

\* [cC]itation at i
IsCit(s, i) == i <= Len(s) /\ s[i] \in {"c", "C"} /\ IsAt(s, i + 1, ITATION)

RECURSIVE Replace1(_, _)
\* .replace(/\[\[([cC])itation/g, "[citation"), scanning from i.
Replace1(s, i) ==
  IF i > Len(s) THEN <<>>
  ELSE IF IsAt(s, i, <<"[", "[">>) /\ IsCit(s, i + 2)
       THEN <<"[">> \o CITATION \o Replace1(s, i + 10)
       ELSE <<s[i]>> \o Replace1(s, i + 1)

\* The end (exclusive) of a match of [cC]itation:(\d+) at i, 0 if none.
CitNumEnd(s, i) ==
  IF IsCit(s, i) /\ IsAt(s, i + 8, <<":">>) /\ DigitsEnd(s, i + 9) > i + 9
  THEN DigitsEnd(s, i + 9) ELSE 0

RECURSIVE Replace2(_, _)
\* .replace(/[cC]itation:(\d+)]]/g, "citation:$1]")
Replace2(s, i) ==
  IF i > Len(s) THEN <<>>
  ELSE LET e == CitNumEnd(s, i)
       IN IF e # 0 /\ IsAt(s, e, <<"]", "]">>)
          THEN CITATION \o <<":">> \o SubSeq(s, i + 9, e - 1) \o <<"]">>
               \o Replace2(s, e + 2)
          ELSE <<s[i]>> \o Replace2(s, i + 1)

RECURSIVE Replace3(_, _)
\* .replace(/\[\[([cC]itation:\d+)]](?!])/g, `[$1]`)
Replace3(s, i) ==
  IF i > Len(s) THEN <<>>
  ELSE LET e == IF IsAt(s, i, <<"[", "[">>) THEN CitNumEnd(s, i + 2) ELSE 0
       IN IF e # 0 /\ IsAt(s, e, <<"]", "]">>) /\ ~IsAt(s, e + 2, <<"]">>)
          THEN <<"[">> \o SubSeq(s, i + 2, e - 1) \o <<"]">> \o Replace3(s, e + 2)
          ELSE <<s[i]>> \o Replace3(s, i + 1)

\* A last replace that rewrites nothing (a faulty variant of the one below).
Replace4Off(s, i) == SubSeq(s, i, Len(s))

RECURSIVE Replace4(_, _)
\* .replace(/\[[cC]itation:(\d+)]/g, "[citation]($1)")
Replace4(s, i) ==
  IF i > Len(s) THEN <<>>
  ELSE LET e == IF IsAt(s, i, <<"[">>) THEN CitNumEnd(s, i + 1) ELSE 0
       IN IF e # 0 /\ IsAt(s, e, <<"]">>)
          THEN <<"[">> \o CITATION \o <<"]", "(">> \o SubSeq(s, i + 10, e - 1)
               \o <<")">> \o Replace4(s, e + 1)
          ELSE <<s[i]>> \o Replace4(s, i + 1)

\* The four ordered replace calls of lines 81-86 and 121-126.
Normalize(x) == Replace4(Replace3(Replace2(Replace1(x, 1), 1), 1), 1)

\* ------------------------------------------------------------ JSON.parse
\* A parsed JSON value is summarised by its kind, its canonical text (the value
\* serialised without insignificant white space: two texts denote the same value
\* iff their canonical texts are equal), its truthiness, and, for an object, its
\* members (key, kind, canonical text, truthiness) in source order.
JsonFail ==
  [ok |-> FALSE, next |-> 0, kind |-> "", canon |-> <<>>, truthy |-> FALSE,
   members |-> <<>>]

JsonVal(n, k, c, t, m) ==
  [ok |-> TRUE, next |-> n, kind |-> k, canon |-> c, truthy |-> t, members |-> m]

JsonSpace == {" ", "\n", "\t", "\r"}

RECURSIVE SkipWs(_, _)
SkipWs(s, i) == IF i <= Len(s) /\ s[i] \in JsonSpace THEN SkipWs(s, i + 1) ELSE i

RECURSIVE StringEnd(_, _)
\* The index of the quote that closes a string whose content starts at j, 0 when
\* the string is unterminated or holds a raw control character or a backslash
\* (escape sequences are outside the modelled alphabet).
StringEnd(s, j) ==
  IF j > Len(s) THEN 0
  ELSE IF s[j] = "\"" THEN j
  ELSE IF s[j] \in {"\n", "\t", "\r", "\\"} THEN 0
  ELSE StringEnd(s, j + 1)

ParseString(s, i) ==
  LET e == StringEnd(s, i + 1)
  IN IF e = 0 THEN JsonFail
     ELSE JsonVal(e + 1, "string", SubSeq(s, i, e), e > i + 1, <<>>)

\* -?(0|[1-9]\d*)(\.\d+)?([eE][+-]?\d+)?
ParseNumber(s, i) ==
  LET a == IF IsAt(s, i, <<"-">>) THEN i + 1 ELSE i
      b == IF IsAt(s, a, <<"0">>) THEN a + 1 ELSE DigitsEnd(s, a)
      c == IF IsAt(s, b, <<".">>) THEN DigitsEnd(s, b + 1) ELSE b
      d == IF c <= Len(s) /\ s[c] \in {"e", "E"}
           THEN IF c + 1 <= Len(s) /\ s[c + 1] \in {"+", "-"} THEN c + 2 ELSE c + 1
           ELSE c
      e == IF d > c THEN DigitsEnd(s, d) ELSE c
      mantissa == SubSeq(s, a, c - 1)
  IN IF b = a \/ (c > b /\ c = b + 1) \/ (d > c /\ e = d) THEN JsonFail
     ELSE JsonVal(e, "number", SubSeq(s, i, e - 1),
                  \E k \in 1..Len(mantissa) : mantissa[k] \in Digit \ {"0"}, <<>>)

Summary(v, key) ==
  [key |-> key, kind |-> v.kind, canon |-> v.canon, truthy |-> v.truthy]

RECURSIVE Parse(_, _, _, _, _)
\* The recursive descent of JSON.parse from index i, in one of three modes:
\*   "value"   one JSON value, leading white space skipped;
\*   "elems"   the elements of an array, i just after "[" or ",";
\*   "members" the members of an object, i just after "{" or ",".
\* acc is the canonical text of the enclosing array or object so far and ms the
\* members of the enclosing object so far.
Parse(mode, s, i, acc, ms) ==
  IF mode = "value" THEN
    LET k == SkipWs(s, i)
    IN IF k > Len(s) THEN JsonFail
       ELSE IF s[k] = "\"" THEN ParseString(s, k)
       ELSE IF s[k] = "[" THEN
         IF IsAt(s, SkipWs(s, k + 1), <<"]">>)
         THEN JsonVal(SkipWs(s, k + 1) + 1, "array", <<"[", "]">>, TRUE, <<>>)
         ELSE Parse("elems", s, k + 1, <<"[">>, <<>>)
       ELSE IF s[k] = "{" THEN
         IF IsAt(s, SkipWs(s, k + 1), <<"}">>)
         THEN JsonVal(SkipWs(s, k + 1) + 1, "object", <<"{", "}">>, TRUE, <<>>)
         ELSE Parse("members", s, k + 1, <<"{">>, <<>>)
       ELSE IF IsAt(s, k, <<"t","r","u","e">>)
            THEN JsonVal(k + 4, "true", <<"t","r","u","e">>, TRUE, <<>>)
       ELSE IF IsAt(s, k, <<"f","a","l","s","e">>)
            THEN JsonVal(k + 5, "false", <<"f","a","l","s","e">>, FALSE, <<>>)
       ELSE IF IsAt(s, k, <<"n","u","l","l">>)
            THEN JsonVal(k + 4, "null", <<"n","u","l","l">>, FALSE, <<>>)
       ELSE IF s[k] \in Digit \cup {"-"} THEN ParseNumber(s, k)
       ELSE JsonFail
  ELSE IF mode = "elems" THEN
    LET v == Parse("value", s, i, <<>>, <<>>)
        j == SkipWs(s, v.next)
    IN IF ~v.ok THEN JsonFail
       ELSE IF IsAt(s, j, <<",">>)
            THEN Parse("elems", s, j + 1, acc \o v.canon \o <<",">>, <<>>)
       ELSE IF IsAt(s, j, <<"]">>)
            THEN JsonVal(j + 1, "array", acc \o v.canon \o <<"]">>, TRUE, <<>>)
       ELSE JsonFail
  ELSE
    LET k == SkipWs(s, i)
        key == IF IsAt(s, k, <<"\"">>) THEN ParseString(s, k) ELSE JsonFail
        c == SkipWs(s, key.next)
        v == IF key.ok /\ IsAt(s, c, <<":">>)
             THEN Parse("value", s, c + 1, <<>>, <<>>) ELSE JsonFail
        j == SkipWs(s, v.next)
        all == acc \o key.canon \o <<":">> \o v.canon
        members == Append(ms, Summary(v, key.canon))
    IN IF ~v.ok THEN JsonFail
       ELSE IF IsAt(s, j, <<",">>)
            THEN Parse("members", s, j + 1, all \o <<",">>, members)
       ELSE IF IsAt(s, j, <<"}">>) THEN JsonVal(j + 1, "object", all \o <<"}">>, TRUE, members)
       ELSE JsonFail

\* JSON.parse(s): the value, or JsonFail where JSON.parse throws SyntaxError.
WholeText(s, v) == IF v.ok /\ SkipWs(s, v.next) = Len(s) + 1 THEN v ELSE JsonFail

JSONParse(s) == WholeText(s, Parse("value", s, 1, <<>>, <<>>))

RECURSIVE LastMember(_, _, _)
LastMember(ms, key, i) ==
  IF i = 0 THEN [key |-> key, kind |-> "undefined", canon |-> <<>>, truthy |-> FALSE]
  ELSE IF ms[i].key = key THEN ms[i]
  ELSE LastMember(ms, key, i - 1)

\* data[name] for a parsed, non-null value: an object's member of that name (the
\* last one wins), undefined on every other kind.
Member(v, name) == LastMember(v.members, <<"\"">> \o name \o <<"\"">>, Len(v.members))

\* ------------------------------------------- one iteration of the read loop
NEWLINE == <<"\n">>

Quote == {"\"", "'"}

\* q.replace(/^["']|["']$/g, ''): one leading and one trailing quote removed.
StripQuotes(q) ==
  LET a == IF q # <<>> /\ q[1] \in Quote THEN Tail(q) ELSE q
  IN IF Len(q) >= 2 /\ q[Len(q)] \in Quote THEN SubSeq(a, 1, Len(a) - 1) ELSE a

RECURSIVE MapQuestions(_)
\* .map(q => q.trim().replace(/^["']|["']$/g, ''))
MapQuestions(tokens) ==
  IF tokens = <<>> THEN <<>>
  ELSE <<StripQuotes(trim(Head(tokens)))>> \o MapQuestions(Tail(tokens))

\* A filter that keeps every question, the placeholder included (a faulty
\* variant of the filter below, to compare against).
KeepAllQuestions(qs) == qs

RECURSIVE FilterQuestions(_)
\* .filter(q => q && !q.startsWith(PLACEHOLDER))
FilterQuestions(qs) ==
  IF qs = <<>> THEN <<>>
  ELSE IF Head(qs) # <<>> /\ ~startsWith(Head(qs), PLACEHOLDER)
       THEN <<Head(qs)>> \o FilterQuestions(Tail(qs))
       ELSE FilterQuestions(Tail(qs))

\* Lines 92-99: the related list of a complete payload, given trimmed (each
\* question stands for the record {question}).
RelatesOf(t) ==
  FilterQuestions(MapQuestions(split(SubSeq(t, 2, Len(t) - 1), <<",">>)))

ParseRelates(relatesStr) == RelatesOf(trim(relatesStr))

\* A completeness test that looks at the opening bracket only (a faulty variant
\* of the test below).
StartsBracket(t) == startsWith(t, <<"[">>)

IsBracketed(t) == startsWith(t, <<"[">>) /\ endsWith(t, <<"]">>)

\* Line 90: the completeness test of the related-questions payload.
RelatesComplete(relatesStr) == relatesStr # <<>> /\ IsBracketed(trim(relatesStr))

\* Lines 89-106: md is what lines 80-87 emitted.
RelatedResult(buf, relatesStr, md) ==
  IF RelatesComplete(relatesStr)
  THEN [buffer |-> <<>>, out |-> md \o <<OnRelates(ParseRelates(relatesStr))>>]
  ELSE [buffer |-> buf, out |-> md]

\* A related stage that emits the whole buffer, sentinel and all (a faulty
\* variant of the stage below).
RelatedWhole(buf, parts) ==
  RelatedResult(buf, parts[2], <<OnMarkdown(Normalize(buf))>>)

\* Lines 77-87: const [content, relatesStr] = parts; the content is emitted.
RelatedFrom(buf, parts) ==
  RelatedResult(buf, parts[2],
                IF parts[1] # <<>> THEN <<OnMarkdown(Normalize(parts[1]))>> ELSE <<>>)

\* Lines 76-108: sentinel B is in the buffer.
ProcessRelated(buf) == RelatedFrom(buf, split(buf, RELATED_SPLIT))

\* Lines 120-130: data.content of a parsed line.  A truthy content that is not
\* a string has no replace method: the TypeError lands in the catch of line 128.
ContentCalls(line, content) ==
  IF ~content.truthy THEN <<>>
  ELSE IF content.kind = "string"
       THEN <<OnMarkdown(Normalize(SubSeq(content.canon, 2, Len(content.canon) - 1)))>>
  ELSE <<OnMarkdown(line \o NEWLINE)>>

\* Lines 118-131: the line after JSON.parse; reading .content off null throws.
LineCalls(line, data) ==
  IF ~data.ok \/ data.kind = "null" THEN <<OnMarkdown(line \o NEWLINE)>>
  ELSE ContentCalls(line, Member(data, <<"c","o","n","t","e","n","t">>))

\* Lines 116-131: what one complete line emits.
ProcessLine(line) ==
  IF trim(line) = <<>> THEN <<>> ELSE LineCalls(line, JSONParse(line))

RECURSIVE ProcessLines(_, _)
ProcessLines(lines, i) ==
  IF i > Len(lines) THEN <<>>
  ELSE ProcessLine(lines[i]) \o ProcessLines(lines, i + 1)

\* Lines 113-132: lines.pop() is kept, the other lines are emitted.
ContentFrom(lines) ==
  [buffer |-> lines[Len(lines)],
   out |-> ProcessLines(SubSeq(lines, 1, Len(lines) - 1), 1)]

\* Lines 111-133: regular content, the last (incomplete) line held back.
ProcessContent(buf) == ContentFrom(split(buf, NEWLINE))

\* Lines 75-133: the buffer after the sources stage.
ProcessAnswer(buf) ==
  IF includes(buf, RELATED_SPLIT) THEN ProcessRelated(buf)
  ELSE IF buf # <<>> THEN ProcessContent(buf)
  ELSE [buffer |-> buf, out |-> <<>>]

\* Lines 63-67: which call the parsed sources make.
SourcesCalls(data, contexts) ==
  IF data.kind = "array" THEN <<OnSources(data.canon)>>
  ELSE IF contexts.truthy THEN <<OnSources(contexts.canon)>>
  ELSE <<>>

\* A sources stage that drops the buffer when the parse fails (a faulty variant
\* of the stage below).
SourcesDropped(buf, rest, data) ==
  IF ~data.ok \/ data.kind = "null"
  THEN [go |-> FALSE, sp |-> FALSE, buffer |-> <<>>, out |-> <<>>]
  ELSE [go |-> TRUE, sp |-> TRUE, buffer |-> rest,
        out |-> IF data.kind = "array" THEN <<[cb |-> "onSources", v |-> data.canon]>>
                ELSE <<>>]

\* Lines 61-72: go is FALSE where the code continues with the buffer untouched
\* (JSON.parse threw, or .contexts was read off null).
SourcesResolved(buf, rest, data) ==
  IF ~data.ok \/ data.kind = "null"
  THEN [go |-> FALSE, sp |-> FALSE, buffer |-> buf, out |-> <<>>]
  ELSE [go |-> TRUE, sp |-> TRUE, buffer |-> rest,
        out |-> SourcesCalls(data, Member(data, <<"c","o","n","t","e","x","t","s">>))]

\* Line 60: const [sourcesStr, rest] = parts.
SourcesFrom(buf, parts) == SourcesResolved(buf, parts[2], JSONParse(parts[1]))

\* Lines 59-73: the sources stage on a buffer that holds sentinel A.
ProcessSources(buf) == SourcesFrom(buf, split(buf, LLM_SPLIT))

\* Line 59: the sources stage runs only while sources are unresolved.
SourcesStage(buf, sp) ==
  IF includes(buf, LLM_SPLIT) /\ ~sp THEN ProcessSources(buf)
  ELSE [go |-> TRUE, sp |-> sp, buffer |-> buf, out |-> <<>>]

AnswerResult(src, ans) ==
  [buffer |-> ans.buffer, sp |-> src.sp, out |-> src.out \o ans.out]

\* Lines 75-133 after lines 59-73.
AnswerStage(src) ==
  IF src.go THEN AnswerResult(src, ProcessAnswer(src.buffer))
  ELSE [buffer |-> src.buffer, sp |-> src.sp, out |-> src.out]

\* Lines 55-133: one chunk through the loop body.
ProcessChunk(buf, sp, chunk) == AnswerStage(SourcesStage(buf \o chunk, sp))

\* ---------------------------------------------- multi-request variant text
RECURSIVE ReplaceFullWidth(_, _)
\* .replace(/【citation:(\d+)】/g, "[citation]($1)")
ReplaceFullWidth(s, i) ==
  IF i > Len(s) THEN <<>>
  ELSE LET e == IF IsAt(s, i, <<"U+3010">> \o CITATION) THEN CitNumEnd(s, i + 1) ELSE 0
       IN IF e # 0 /\ IsAt(s, e, <<"U+3011">>)
          THEN <<"[">> \o CITATION \o <<"]", "(">> \o SubSeq(s, i + 10, e - 1)
               \o <<")">> \o ReplaceFullWidth(s, e + 1)
          ELSE <<s[i]>> \o ReplaceFullWidth(s, i + 1)

\* The five ordered replace calls of the multi-request variant.
NormalizeMulti(fullText) ==
  Replace4(ReplaceFullWidth(Replace3(Replace2(Replace1(fullText, 1), 1), 1), 1), 1)

\* The reducer handed to onMarkdown: prev => normalize(prev + chunk).
MarkdownReducer(prev, chunk) == NormalizeMulti(prev \o chunk)

\* ------------------------------------------------------- backend outputs
\* What the backend can send: source blocks, answer records and related-question
\* payloads in the shapes the protocol documents, and some it does not.
SRC_EMPTY == <<"[","]">>

SRC_ONE == <<"[","{","\"","i","d","\"",":","1","}","]">>

SRC_CONTEXTS == <<"{","\"","c","o","n","t","e","x","t","s","\"",":","[","1","]","}">>

SRC_MULTILINE == <<"[","\n","1","]">>

SRC_OBJECT == <<"{","}">>

\* A source list whose one entry is a text that reads like sentinel B.
SRC_QUOTES_B == <<"[","\"">> \o RELATED_SPLIT \o <<"\"","]">>

REC_JSON == <<"{","\"","c","o","n","t","e","n","t","\"",":","\"","a","\"","}","\n">>

REC_RAW == <<"x","\n">>

REC_RAW_CITED == <<"[","[","c","i","t","a","t","i","o","n",":","1","]","]","\n">>

REC_OPEN == <<"{","\"","c","o","n","t","e","n","t","\"",":","\"","a","\"","}">>

REL_ONE == <<"[","\"","q","\"","]">>

REL_PLACEHOLDER ==
  <<"[","\"","q","1","\"",",","\"">> \o PLACEHOLDER \o <<"x","\"",",","\"","q","2","\"","]">>

REL_OPEN == <<"[","\"","q","\"">>

\* Up to this many answer records in a generated stream.
MaxRecords == 1

Records == {REC_JSON, REC_RAW}

RECURSIVE Answers(_)
\* The answer segments of at most n records.
Answers(n) ==
  IF n = 0 THEN {<<>>}
  ELSE Answers(n - 1) \cup {a \o r : a \in Answers(n - 1), r \in Records}

\* The streams of the single-stream endpoint that the model delivers: a source
\* block and sentinel A, answer records, then nothing, or sentinel B with a
\* complete or an unclosed list; and streams off the documented shape.
GeneratedStreams ==
  {src \o LLM_SPLIT \o ans \o rel :
     src \in {SRC_EMPTY, SRC_MULTILINE},
     ans \in Answers(MaxRecords),
     rel \in {<<>>, RELATED_SPLIT \o REL_ONE, RELATED_SPLIT \o REL_OPEN}}

SpecialStreams ==
  { SRC_ONE \o LLM_SPLIT \o REC_JSON \o RELATED_SPLIT \o REL_PLACEHOLDER,
    SRC_EMPTY \o LLM_SPLIT \o RELATED_SPLIT \o SRC_EMPTY \o REC_RAW,
    REC_RAW \o RELATED_SPLIT \o REL_ONE,
    SRC_CONTEXTS \o LLM_SPLIT \o REC_OPEN,
    SRC_OBJECT \o LLM_SPLIT \o REC_RAW,
    LLM_SPLIT \o REC_RAW,
    SRC_EMPTY \o LLM_SPLIT \o REC_RAW_CITED \o RELATED_SPLIT \o SRC_EMPTY,
    SRC_QUOTES_B \o LLM_SPLIT \o REC_RAW }

SingleStreams == GeneratedStreams \cup SpecialStreams

\* The /generate body arrives in at most this many chunks.
MaxChunks == 3

\* The raw answer texts of the /generate endpoint.
MultiStreams ==
  { <<"a","[","[","c","i","t","a","t","i","o","n",":","1","]","]">>,
    <<"U+3010","c","i","t","a","t","i","o","n",":","2","U+3011">> }

\* The bodies /search can return: JSON text, or text that is not JSON.
SearchBodies == {SRC_EMPTY, SRC_ONE, <<"<">>}

\* The values /related can return, parsed: lists of strings, or no list at all.
RelatedValues == {<<>>, <<<<"q","1">>, <<"q","2">>>>}

\* Statuses of responses that are not ok.
ErrStatus == {404, 429, 500}

\* --------------------------------------------------------------- state
VARIABLES
  variant,          \* "single" | "multi": which parseStreaming runs
  stream,           \* the decoded text the transport delivers
  pos,              \* how much of it has been read
  pc,               \* the await the session is suspended at, or "done"
  buffer,           \* let buffer
  sourcesProcessed, \* let sourcesProcessed
  calls,            \* every callback invocation so far, in order
  markdown,         \* the consumer's accumulated value under the reducer form
  contexts,         \* const contexts (multi-request variant)
  aborted,          \* controller.signal.aborted
  callerAbortAt,    \* Len(calls) when the caller aborted, -1 before
  abortCalls,       \* how often the component called controller.abort()
  abortAt,          \* Len(calls) when the component called it, -1 before
  bodyRead,         \* whether a reader.read() was answered
  chunks,           \* /generate chunks delivered (multi-request variant)
  requests,         \* the requests issued, in order
  status,           \* the status of the response that was not ok, 0 if none
  exit,             \* the way out taken, "" while running
  outcome,          \* the returned promise: "pending" | "resolved" | "rejected"
  text,             \* an input of the normalization pipeline
  once,             \* Normalize(text)
  twice,            \* Normalize(Normalize(text))
  sessions          \* the sessions that run side by side, <<>> if there is one

\* What no step of the one session changes.
fixed == <<variant, stream, sessions>>

loop == <<pos, buffer, sourcesProcessed, markdown, bodyRead, chunks>>

ending == <<aborted, abortCalls, abortAt, exit, outcome>>

pipeline == <<text, once, twice>>

vars == <<fixed, loop, ending, pc, calls, contexts, callerAbortAt, requests, status,
          pipeline>>

FirstAwait(v) == IF v = "single" THEN "fetch" ELSE "search"

FirstRequest(v) == IF v = "single" THEN "/query" ELSE "/search"

\* The state when parseStreaming suspends at its first await: the request is out.
InitSession ==
  /\ variant \in {"single", "multi"}
  /\ stream \in IF variant = "single" THEN SingleStreams ELSE MultiStreams
  /\ pos = 0
  /\ pc = FirstAwait(variant)
  /\ buffer = <<>>
  /\ sourcesProcessed = FALSE
  /\ calls = <<>>
  /\ markdown = <<>>
  /\ contexts = <<>>
  /\ aborted = FALSE
  /\ callerAbortAt = -1
  /\ abortCalls = 0
  /\ abortAt = -1
  /\ bodyRead = FALSE
  /\ chunks = 0
  /\ requests = <<FirstRequest(variant)>>
  /\ status = 0
  /\ exit = ""
  /\ outcome = "pending"

IdlePipeline == text = <<>> /\ once = <<>> /\ twice = <<>>

\* No sessions side by side.
NoPair == sessions = <<>>

Init == InitSession /\ IdlePipeline /\ NoPair

\* ------------------------------------------------------- exits
\* A catch block that reports every Error, the AbortError included (a faulty
\* variant of the catch block below).
CatchReportsAbort(err) ==
  IF err.isError
  THEN [out |-> <<[cb |-> "onError", v |-> 500]>>, outcome |-> "resolved"]
  ELSE [out |-> <<>>, outcome |-> "resolved"]

\* A catch block that rethrows what is not an AbortError (a faulty variant).
CatchRethrows(err) ==
  IF err.isError /\ err.name = "AbortError"
  THEN [out |-> <<>>, outcome |-> "resolved"]
  ELSE [out |-> <<>>, outcome |-> "rejected"]

\* Lines 135-143: what the catch block does with a thrown value; err is
\* [isError, name].  The promise resolves: the catch block rethrows nothing.
Catch(err) ==
  IF err.isError
  THEN IF err.name = "AbortError"
       THEN [out |-> <<>>, outcome |-> "resolved"]
       ELSE [out |-> <<OnError(500)>>, outcome |-> "resolved"]
  ELSE [out |-> <<>>, outcome |-> "resolved"]

AbortError == [isError |-> TRUE, name |-> "AbortError"]

NetworkError == [isError |-> TRUE, name |-> "TypeError"]

NoReaderError == [isError |-> TRUE, name |-> "Error"]

SyntaxError == [isError |-> TRUE, name |-> "SyntaxError"]

\* A way out that leaves the transport unreleased (a faulty variant of the
\* finally block below).
FinallyNoRelease ==
  /\ abortCalls' = abortCalls
  /\ abortAt' = abortAt
  /\ aborted' = aborted
  /\ pc' = "done"

\* A finally block that never returns (a faulty variant of the one below).
FinallyHangs ==
  /\ abortCalls' = abortCalls + 1
  /\ abortAt' = Len(calls')
  /\ aborted' = TRUE
  /\ pc' = "hung"

\* Lines 144-150: the finally block, which runs on every way out, calls
\* controller.abort() once, after whatever the way out called; abort() on an
\* aborted controller does nothing and throws nothing.
Finally ==
  /\ abortCalls' = abortCalls + 1
  /\ abortAt' = Len(calls')
  /\ aborted' = TRUE
  /\ pc' = "done"

\* A report of the generic status whatever the response's status is (a faulty
\* variant of the report below).
NotOkGeneric(st) == <<[cb |-> "onError", v |-> 500]>>

\* No report at all of a response that is not ok (a faulty variant).
NotOkSilent(st) == <<>>

\* Lines 40-43: what a response that is not ok makes the session call.
NotOk(st) == <<OnError(st)>>

\* Leaving through return or break: out is what was called on the way.
Return(out, way) ==
  /\ calls' = calls \o out
  /\ outcome' = "resolved"
  /\ exit' = way
  /\ Finally

\* Leaving through the catch block.
Caught(err, handled) ==
  /\ calls' = calls \o handled.out
  /\ outcome' = handled.outcome
  /\ exit' = err.name
  /\ Finally

Throw(err) == Caught(err, Catch(err))

FetchAwaits == {"fetch", "search", "generate", "related"}

Awaits == FetchAwaits \cup {"read", "searchJson", "relatedJson"}

\* ------------------------------------------------------- the caller
\* The caller aborts the controller while the session is suspended.
CallerAbort ==
  /\ pc \in Awaits
  /\ ~aborted
  /\ aborted' = TRUE
  /\ callerAbortAt' = Len(calls)
  /\ UNCHANGED <<fixed, loop, abortCalls, abortAt, exit, outcome, pc, calls, contexts,
                 requests, status, pipeline>>

\* ------------------------------------------------------- any await
\* The pending await rejects with the signal's AbortError.
AwaitAborted ==
  /\ pc \in Awaits
  /\ aborted
  /\ Throw(AbortError)
  /\ UNCHANGED <<fixed, loop, contexts, callerAbortAt, requests, status, pipeline>>

\* A fetch, a read or a body read rejects: the network failed.
AwaitFailed ==
  /\ pc \in Awaits
  /\ ~aborted
  /\ Throw(NetworkError)
  /\ UNCHANGED <<fixed, loop, contexts, callerAbortAt, requests, status, pipeline>>

\* if (!response.ok) { onError?.(response.status); return; }
ResponseNotOk(st) ==
  /\ pc \in FetchAwaits
  /\ ~aborted
  /\ status' = st
  /\ Return(NotOk(st), "status")
  /\ UNCHANGED <<fixed, loop, contexts, callerAbortAt, requests, pipeline>>

\* The response is ok but has no body: throw new Error("No reader available").
NoReader ==
  /\ pc \in {"fetch", "generate"}
  /\ ~aborted
  /\ Throw(NoReaderError)
  /\ UNCHANGED <<fixed, loop, contexts, callerAbortAt, requests, status, pipeline>>

\* The response is ok and has a body: the loop's first reader.read() is awaited.
ResponseOk ==
  /\ pc \in {"fetch", "generate"}
  /\ ~aborted
  /\ pc' = "read"
  /\ UNCHANGED <<fixed, loop, ending, calls, contexts, callerAbortAt, requests, status,
                 pipeline>>

\* ------------------------------------------------------- single stream
\* The loop body's effect on the session.
LoopBody(r) ==
  /\ buffer' = r.buffer
  /\ sourcesProcessed' = r.sp
  /\ calls' = calls \o r.out

\* reader.read() yields the next n characters; the loop body runs on them.
ReadChunk(n) ==
  /\ variant = "single"
  /\ pc = "read"
  /\ ~aborted
  /\ pos + n <= Len(stream)
  /\ LoopBody(ProcessChunk(buffer, sourcesProcessed, SubSeq(stream, pos + 1, pos + n)))
  /\ pos' = pos + n
  /\ bodyRead' = TRUE
  /\ UNCHANGED <<fixed, ending, pc, markdown, chunks, contexts, callerAbortAt, requests,
                 status, pipeline>>

\* reader.read() reports done: break, then the finally block.
ReadDone ==
  /\ variant = "single"
  /\ pc = "read"
  /\ ~aborted
  /\ pos = Len(stream)
  /\ Return(<<>>, "eof")
  /\ bodyRead' = TRUE
  /\ UNCHANGED <<fixed, pos, buffer, sourcesProcessed, markdown, chunks, contexts,
                 callerAbortAt, requests, status, pipeline>>

\* ------------------------------------------------------- multi request
\* /search answered ok: its body is awaited.
SearchOk ==
  /\ pc = "search"
  /\ ~aborted
  /\ pc' = "searchJson"
  /\ UNCHANGED <<fixed, loop, ending, calls, contexts, callerAbortAt, requests, status,
                 pipeline>>

\* Lines 41-45 of the multi-request variant, data being the body parsed.
SearchResult(data) ==
  IF data.ok
  THEN /\ contexts' = data.canon
       /\ calls' = Append(calls, OnSources(data.canon))
       /\ requests' = Append(requests, "/generate")
       /\ pc' = "generate"
       /\ UNCHANGED ending
  ELSE /\ Throw(SyntaxError)
       /\ UNCHANGED <<contexts, requests>>

\* await searchResponse.json(); onSources(contexts); then /generate is fetched.
SearchJson(body) ==
  /\ pc = "searchJson"
  /\ ~aborted
  /\ SearchResult(JSONParse(body))
  /\ UNCHANGED <<fixed, loop, callerAbortAt, status, pipeline>>

\* The consumer applies the reducer: value is what it returned.
SetMarkdown(value) ==
  /\ markdown' = value
  /\ calls' = Append(calls, OnMarkdown(value))

\* One chunk of /generate: onMarkdown(prev => normalize(prev + chunk)).
GenerateChunk(n) ==
  /\ variant = "multi"
  /\ pc = "read"
  /\ ~aborted
  /\ pos + n <= Len(stream)
  /\ chunks + 1 < MaxChunks \/ pos + n = Len(stream)
  /\ chunks' = chunks + 1
  /\ SetMarkdown(MarkdownReducer(markdown, SubSeq(stream, pos + 1, pos + n)))
  /\ pos' = pos + n
  /\ bodyRead' = TRUE
  /\ UNCHANGED <<fixed, ending, pc, buffer, sourcesProcessed, contexts, callerAbortAt,
                 requests, status, pipeline>>

\* /generate is done: /related is fetched.
GenerateDone ==
  /\ variant = "multi"
  /\ pc = "read"
  /\ ~aborted
  /\ pos = Len(stream)
  /\ pc' = "related"
  /\ requests' = Append(requests, "/related")
  /\ bodyRead' = TRUE
  /\ UNCHANGED <<fixed, ending, pos, buffer, sourcesProcessed, markdown, chunks, calls,
                 contexts, callerAbortAt, status, pipeline>>

\* /related answered ok: its body is awaited.
RelatedOk ==
  /\ pc = "related"
  /\ ~aborted
  /\ pc' = "relatedJson"
  /\ UNCHANGED <<fixed, loop, ending, calls, contexts, callerAbortAt, requests, status,
                 pipeline>>

\* await relatedResponse.json(); onRelates(questions.map(...)); the function ends.
RelatedJson(questions) ==
  /\ pc = "relatedJson"
  /\ ~aborted
  /\ Return(<<OnRelates(questions)>>, "complete")
  /\ UNCHANGED <<fixed, loop, contexts, callerAbortAt, requests, status, pipeline>>

\* The /related body is not JSON (SyntaxError), or JSON without a map method
\* (TypeError): either lands in the catch block.
RelatedBad(err) ==
  /\ pc = "relatedJson"
  /\ ~aborted
  /\ Throw(err)
  /\ UNCHANGED <<fixed, loop, contexts, callerAbortAt, requests, status, pipeline>>

Next ==
  \/ CallerAbort
  \/ AwaitAborted
  \/ AwaitFailed
  \/ \E st \in ErrStatus : ResponseNotOk(st)
  \/ NoReader
  \/ ResponseOk
  \/ \E n \in 1..Len(stream) : ReadChunk(n)
  \/ ReadDone
  \/ SearchOk
  \/ \E body \in SearchBodies : SearchJson(body)
  \/ \E n \in 1..Len(stream) : GenerateChunk(n)
  \/ GenerateDone
  \/ RelatedOk
  \/ \E questions \in RelatedValues : RelatedJson(questions)
  \/ \E err \in {SyntaxError, NetworkError} : RelatedBad(err)

Spec == Init /\ [][Next]_vars

\* ------------------------------------------- the pipeline on its own
\* The pieces an input of the pipeline is put together from.
Pieces == { <<"[">>, <<"]">>, CITATION, <<"C">> \o ITATION, <<":">>, <<"1">>,
            <<"(">>, <<")">> }

\* Inputs of at most this many pieces.
MaxPieces == 4

\* A session that never starts: the pipeline is applied on its own.
NoSession ==
  /\ variant = "single"
  /\ stream = <<>>
  /\ pos = 0
  /\ pc = "done"
  /\ buffer = <<>>
  /\ sourcesProcessed = FALSE
  /\ calls = <<>>
  /\ markdown = <<>>
  /\ contexts = <<>>
  /\ aborted = FALSE
  /\ callerAbortAt = -1
  /\ abortCalls = 0
  /\ abortAt = -1
  /\ bodyRead = FALSE
  /\ chunks = 0
  /\ requests = <<>>
  /\ status = 0
  /\ exit = ""
  /\ outcome = "pending"

InitPipeline == NoSession /\ IdlePipeline /\ NoPair

\* One more piece is appended and the pipeline applied once and twice.
Extend(piece) ==
  /\ chunks < MaxPieces
  /\ chunks' = chunks + 1
  /\ text' = text \o piece
  /\ once' = Normalize(text \o piece)
  /\ twice' = Normalize(Normalize(text \o piece))
  /\ UNCHANGED <<fixed, pos, buffer, sourcesProcessed, markdown, bodyRead, ending, pc,
                 calls, contexts, callerAbortAt, requests, status>>

NextPipeline == \E piece \in Pieces : Extend(piece)

SpecPipeline == InitPipeline /\ [][NextPipeline]_vars

\* =================================================== properties of a session
\* The positions of the calls of one callback.
CallsOf(cb) == {i \in 1..Len(calls) : calls[i].cb = cb}

\* The session is the single-stream variant and its stream was read to the end.
StreamEnded == variant = "single" /\ exit = "eof"

\* The text after the first occurrence of pat in s (s holds pat).
After(s, pat) == SubSeq(s, IndexFrom(s, pat, 1) + Len(pat), Len(s))

\* The text before the first occurrence of pat in s (s holds pat).
Before(s, pat) == SubSeq(s, 1, IndexFrom(s, pat, 1) - 1)

\* The first n characters of s.
Prefix(s, n) == SubSeq(s, 1, n)

\* t, trimmed, starts with [ and ends with ].
ClosedList(u) == u # <<>> /\ u[1] = "[" /\ u[Len(u)] = "]"

BracketClosed(t) == ClosedList(trim(t))

\* The complete streams of the documented shape: a JSON array, sentinel A,
\* newline-terminated records, sentinel B, a bracket-closed question list.
CompleteStreams ==
  {src \o LLM_SPLIT \o ans \o RELATED_SPLIT \o REL_ONE :
     src \in {SRC_EMPTY, SRC_MULTILINE}, ans \in Answers(MaxRecords)}
  \cup {SRC_ONE \o LLM_SPLIT \o REC_JSON \o RELATED_SPLIT \o REL_PLACEHOLDER}

\* C1: chunk-boundary independence.  For a complete stream, whatever the cuts,
\* the session that read the stream to its end has made the same sequence of
\* onSources / onMarkdown / onRelates calls, payloads included, as the session
\* that received the stream as one chunk.
C1_ChunkingIndependent ==
  (StreamEnded /\ stream \in CompleteStreams)
    => calls = ProcessChunk(<<>>, FALSE, stream).out

\* The stream starts with a source segment: text that parses as a JSON array,
\* immediately followed by sentinel A.
ArraySource(data) == data.ok /\ data.kind = "array"

HasSourceSegment(s) ==
  includes(s, LLM_SPLIT) /\ ArraySource(JSONParse(Before(s, LLM_SPLIT)))

\* The array of the source segment, as onSources is to receive it.
SourceArray(s) == JSONParse(Before(s, LLM_SPLIT)).canon

\* C2: for a stream that starts with a source segment and for every chunking,
\* nothing reaches onMarkdown while the sources are unresolved (what precedes
\* sentinel A is never markdown), and the session that read the stream to its
\* end has called onSources exactly once, with exactly the parsed array.
C2_SourcesExact ==
  (variant = "single" /\ HasSourceSegment(stream))
    => /\ ~sourcesProcessed => CallsOf("onMarkdown") = {}
       /\ \A i \in CallsOf("onSources") : calls[i].v = SourceArray(stream)
       /\ exit = "eof" => Cardinality(CallsOf("onSources")) = 1

\* C3: segment order in every session of either variant: no onSources call
\* after an onMarkdown call, and no onMarkdown or onSources call after the
\* onRelates call.
C3_SegmentOrder ==
  \A i, j \in 1..Len(calls) :
    i < j =>
      /\ ~(calls[i].cb = "onMarkdown" /\ calls[j].cb = "onSources")
      /\ ~(calls[i].cb = "onRelates" /\ calls[j].cb \in {"onMarkdown", "onSources"})

C5_NotOkReportsStatus ==
  (exit = "status" /\ Len(requests) = 1)
    => calls = <<OnError(status)>> /\ ~bodyRead /\ pc = "done"

\* The initial response came back 429.
C5_Initial429 == exit = "status" /\ Len(requests) = 1 /\ status = 429

\* C6: controller.abort() is called by the component exactly once on every
\* way out (never before, never twice), after the last callback, and the
\* session ends with the promise resolved, also when the caller had aborted
\* the controller already.
C6_ReleasedOnce ==
  /\ abortCalls = (IF pc = "done" THEN 1 ELSE 0)
  /\ pc = "done" => /\ abortAt = Len(calls)
                    /\ exit \in {"eof", "complete", "status", "AbortError", "Error",
                                 "TypeError", "SyntaxError"}
                    /\ outcome = "resolved"
  /\ pc # "done" => exit = "" /\ outcome = "pending"

\* The release ran on a controller the caller had already aborted.
C6_ReleasedAfterCallerAbort ==
  pc = "done" /\ callerAbortAt # -1 /\ abortCalls = 1 /\ exit = "AbortError"

\* C7: the promise is never rejected; a response without a readable body, or
\* an exception that is not an abort, ends the session with exactly one onError
\* call, onError(500), as its last call.
C7_NeverRejects ==
  /\ outcome # "rejected"
  /\ exit \in {"Error", "TypeError", "SyntaxError"}
       => /\ pc = "done" /\ outcome = "resolved"
          /\ Cardinality(CallsOf("onError")) = 1
          /\ calls[Len(calls)] = OnError(500)

\* A response without a readable body ended the session, after earlier calls.
C7_NoReaderAfterSources ==
  exit = "Error" /\ Len(calls) = 2 /\ calls[1].cb = "onSources"

\* Sentinel B is received, and at no point of the delivery is the text received
\* after it a bracket-closed list.
NeverClosed(s) ==
  /\ includes(s, RELATED_SPLIT)
  /\ \A n \in 1..Len(s) :
       includes(Prefix(s, n), RELATED_SPLIT)
         => ~BracketClosed(After(Prefix(s, n), RELATED_SPLIT))

\* C8: when sentinel B is received but the text after it never becomes a
\* bracket-closed list, then for every chunking a session that is reading, or
\* has read the stream to its end, has called neither onRelates nor onError,
\* and at end-of-stream its promise resolves.
C8_UnclosedListSilent ==
  (variant = "single" /\ NeverClosed(stream))
    => /\ CallsOf("onRelates") = {}
       /\ exit \in {"", "eof"} => CallsOf("onError") = {} /\ outcome # "rejected"
       /\ exit = "eof" => outcome = "resolved" /\ pc = "done"

\* A stream with an unclosed list was read to its end, sentinel B and the text
\* after it delivered over several chunks.
C8_UnclosedListRead ==
  /\ StreamEnded
  /\ NeverClosed(stream)
  /\ includes(buffer, RELATED_SPLIT)
  /\ Cardinality(CallsOf("onMarkdown")) >= 2

\* The positions of the separators of x: before its first character, its
\* commas, and after its last character.
Cuts(x) == {0, Len(x) + 1} \cup {i \in 1..Len(x) : x[i] = ","}

\* The k-th separator, in input order.
Cut(x, k) == CHOOSE c \in Cuts(x) : Cardinality({d \in Cuts(x) : d < c}) = k - 1

\* The comma-separated tokens of x, in input order.
Tokens(x) ==
  [k \in 1..(Cardinality(Cuts(x)) - 1) |-> SubSeq(x, Cut(x, k) + 1, Cut(x, k + 1) - 1)]

\* q without one leading and one trailing quote character.
Unquoted(q) ==
  SubSeq(q, IF q # <<>> /\ q[1] \in Quote THEN 2 ELSE 1,
            IF q # <<>> /\ q[Len(q)] \in Quote THEN Len(q) - 1 ELSE Len(q))

Cleaned(tokens) == [k \in 1..Len(tokens) |-> Unquoted(trim(tokens[k]))]

Kept(q) == q # <<>> /\ ~(Len(q) >= 6 /\ SubSeq(q, 1, 6) = PLACEHOLDER)

\* The related list of a bracket-closed payload u (trimmed), as the protocol
\* describes it.
ExpectedRelates(u) == SelectSeq(Cleaned(Tokens(SubSeq(u, 2, Len(u) - 1))), Kept)

\* The payloads that were bracket-closed when the first n characters were read.
ClosedPayloads(s, n) ==
  {trim(After(Prefix(s, m), RELATED_SPLIT)) :
     m \in {k \in 1..n : /\ includes(Prefix(s, k), RELATED_SPLIT)
                         /\ BracketClosed(After(Prefix(s, k), RELATED_SPLIT))}}

PlaceholderStream ==
  SRC_ONE \o LLM_SPLIT \o REC_JSON \o RELATED_SPLIT \o REL_PLACEHOLDER

\* C9: every list passed to onRelates is the list the protocol describes for
\* a payload that was bracket-closed when it was read: one question per
\* comma-separated token between the outer brackets, in input order, trimmed,
\* one leading and one trailing quote removed, empty and placeholder-prefixed
\* tokens omitted; and the payload ["q1","<placeholder>x","q2"], read to the
\* end, gives exactly one onRelates call, with q1 and q2.
C9_RelatesExtracted ==
  variant = "single"
    => /\ \A i \in CallsOf("onRelates") :
            \E u \in ClosedPayloads(stream, pos) : calls[i].v = ExpectedRelates(u)
       /\ (StreamEnded /\ stream = PlaceholderStream)
            => /\ Cardinality(CallsOf("onRelates")) = 1
               /\ \A i \in CallsOf("onRelates") :
                    calls[i].v = << <<"q", "1">>, <<"q", "2">> >>

\* The placeholder payload was read and its list passed on.
C9_PlaceholderDropped ==
  /\ variant = "single"
  /\ stream = PlaceholderStream
  /\ CallsOf("onRelates") # {}
  /\ exit = "eof"

\* C10: the pipeline of the four replace calls is idempotent: applying it to
\* its own output changes nothing.
C10_Idempotent == twice = once

\* ------------------------------------- the pipeline on a citation marker
\* Text around a marker: no citation syntax of its own, no bracket next to the
\* marker.
Leads == { <<>>, <<"s","e","e"," ">>, <<"a">>, <<"[","a","]"," ">>, <<"(">>,
           <<"c","i","t","a","t","i","o","n"," ">>, <<"1",":">>, <<"\n">> }

Trails == { <<>>, <<" ","h","e","r","e">>, <<".">>, <<" ","[","b","]">>, <<")">>,
            <<":","4">>, <<" ","C","i","t","a","t","i","o","n">>, <<"\n">> }

\* The digit strings of a marker.
Numbers == { <<"3">>, <<"1","2">>, <<"0">>, <<"0","0","7">> }

\* [[citation:N]] or [[Citation:N]] between lead and trail.
Marked(lead, c, num, trail) ==
  lead \o <<"[","[">> \o <<c>> \o ITATION \o <<":">> \o num \o <<"]","]">> \o trail

\* A text holding one marker goes through the pipeline.
Mark(lead, c, num, trail) ==
  /\ chunks = 0
  /\ chunks' = 1
  /\ text' = Marked(lead, c, num, trail)
  /\ once' = Normalize(Marked(lead, c, num, trail))
  /\ twice' = Normalize(Normalize(Marked(lead, c, num, trail)))
  /\ UNCHANGED <<fixed, pos, buffer, sourcesProcessed, markdown, bodyRead, ending, pc,
                 calls, contexts, callerAbortAt, requests, status>>

NextMarker ==
  \E lead \in Leads, c \in {"c", "C"}, num \in Numbers, trail \in Trails :
    Mark(lead, c, num, trail)

SpecMarker == InitPipeline /\ [][NextMarker]_vars

\* The link the pipeline is to produce for the digit string num.
Link(num) == <<"[">> \o CITATION \o <<"]","(">> \o num \o <<")">>

\* C11: a double-bracket marker [[citation:N]] or [[Citation:N]] that no
\* further bracket touches becomes [citation](N) and the text around it is
\* unchanged; `see [[citation:3]] here` becomes `see [citation](3) here` and
\* `[[Citation:12]]` becomes `[citation](12)`.
C11_MarkerRewritten ==
  /\ \A lead \in Leads, c \in {"c", "C"}, num \in Numbers, trail \in Trails :
       text = Marked(lead, c, num, trail) => once = lead \o Link(num) \o trail
  /\ text = <<"s","e","e"," ","[","[","c","i","t","a","t","i","o","n",":","3","]","]",
              " ","h","e","r","e">>
       => once = <<"s","e","e"," ","[","c","i","t","a","t","i","o","n","]","(","3",")",
                   " ","h","e","r","e">>
  /\ text = <<"[","[","C","i","t","a","t","i","o","n",":","1","2","]","]">>
       => once = <<"[","c","i","t","a","t","i","o","n","]","(","1","2",")">>

\* The capitalised marker with a two-digit number went through the pipeline.
C11_CapitalMarker ==
  /\ text = <<"[","[","C","i","t","a","t","i","o","n",":","1","2","]","]">>
  /\ once = Link(<<"1","2">>)

\* The raw text a session has received so far.
Received == Prefix(stream, pos)

\* C12: in the multi-request variant the accumulated markdown value is, after
\* every chunk, the pipeline applied to the entire raw text received so far
\* (so that every chunking of one answer text ends with the same markdown).
C12_CumulativeMarkdown ==
  variant = "multi" => markdown = NormalizeMulti(Received)

\* The requests of the multi-request variant, in the order it issues them.
Stages == <<"/search", "/generate", "/related">>

\* What holds of a multi-request session at every moment: the requests issued
\* are an initial part of the three stages; a session that left on a response
\* that was not ok has made exactly one onError call, its last call, with that
\* response's status, and its promise is resolved; onSources was called exactly
\* if /search was answered and /generate requested, onRelates exactly if the
\* session completed all three stages.
StageErrorsReported ==
  variant = "multi"
    => /\ requests = SubSeq(Stages, 1, Len(requests))
       /\ exit = "status"
            => /\ pc = "done" /\ outcome = "resolved"
               /\ Cardinality(CallsOf("onError")) = 1
               /\ calls[Len(calls)] = OnError(status)
       /\ Cardinality(CallsOf("onSources")) = (IF Len(requests) >= 2 THEN 1 ELSE 0)
       /\ Cardinality(CallsOf("onRelates")) = (IF exit = "complete" THEN 1 ELSE 0)
       /\ exit = "complete" => requests = Stages /\ CallsOf("onError") = {}

\* C13: in the multi-request variant a response that is not ok, at any of the
\* three stages, is reported by exactly one onError call with that stage's
\* status, after which no request is issued and no callback invoked, and the
\* promise resolves; onSources is called exactly when /search succeeded and
\* onRelates exactly when all three stages succeeded.
C13_StageErrors ==
  /\ []StageErrorsReported
  /\ [][exit = "status" => UNCHANGED <<calls, requests>>]_vars

\* /related answered 404 after /search and /generate had succeeded.
C13_RelatedNotOk ==
  /\ variant = "multi"
  /\ exit = "status"
  /\ status = 404
  /\ requests = Stages
  /\ Cardinality(CallsOf("onMarkdown")) >= 1

\* ------------------------------------------------ two sessions side by side
\* Two calls of the single-stream parseStreaming, each with its own controller,
\* suspended at reader.read(); their chunks arrive in any order.  buffer and
\* sourcesProcessed are declared inside the function (lines 23-24): each call
\* has its own.  A session's field alone is the same session fed the same
\* chunks with nothing else running.
PairStreams ==
  { SRC_EMPTY \o LLM_SPLIT \o REC_RAW \o RELATED_SPLIT \o REL_ONE,
    SRC_ONE \o LLM_SPLIT \o REC_JSON \o REC_RAW }

\* The sizes chunks arrive in (or whatever is left of the stream).
PairChunkSizes == {8, 13}

Started(s) ==
  [stream |-> s, pos |-> 0, pc |-> "read", buffer |-> <<>>, sourcesProcessed |-> FALSE,
   calls |-> <<>>, aborted |-> FALSE, callerAborted |-> FALSE, exit |-> "",
   alone |-> [buffer |-> <<>>, sp |-> FALSE, calls |-> <<>>]]

InitPair ==
  /\ NoSession
  /\ IdlePipeline
  /\ sessions \in {<<Started(a), Started(b)>> : a \in PairStreams, b \in PairStreams}

\* One buffer for every session, as a module-level variable would be (a faulty
\* variant of the definition below).
SharedBuffer(ss, k) == ss[1].buffer

\* The buffer session k reads when its chunk arrives: its own.
BufferOf(ss, k) == ss[k].buffer

NextChunk(ss, k, n) == SubSeq(ss[k].stream, ss[k].pos + 1, ss[k].pos + n)

\* Session k after the loop body ran: r is the body's result on its state, a
\* the result on the state of the session running alone.
AfterChunk(ss, k, n, r, a) ==
  [ss EXCEPT ![k].pos = @ + n,
             ![k].buffer = r.buffer,
             ![k].sourcesProcessed = r.sp,
             ![k].calls = @ \o r.out,
             ![k].alone = [buffer |-> a.buffer, sp |-> a.sp, calls |-> @.calls \o a.out]]

OnlyPair ==
  UNCHANGED <<variant, stream, loop, ending, pc, calls, contexts, callerAbortAt,
              requests, status, pipeline>>

\* Session k's reader.read() yields n characters; its loop body runs.
PairRead(k, n) ==
  /\ sessions[k].pc = "read"
  /\ ~sessions[k].aborted
  /\ sessions[k].pos + n <= Len(sessions[k].stream)
  /\ n \in PairChunkSizes \/ sessions[k].pos + n = Len(sessions[k].stream)
  /\ sessions' =
       AfterChunk(sessions, k, n,
                  ProcessChunk(BufferOf(sessions, k), sessions[k].sourcesProcessed,
                               NextChunk(sessions, k, n)),
                  ProcessChunk(sessions[k].alone.buffer, sessions[k].alone.sp,
                               NextChunk(sessions, k, n)))
  /\ OnlyPair

\* Session k's reader.read() reports done: break, finally, its controller aborted.
PairDone(k) ==
  /\ sessions[k].pc = "read"
  /\ ~sessions[k].aborted
  /\ sessions[k].pos = Len(sessions[k].stream)
  /\ sessions' = [sessions EXCEPT ![k].pc = "done", ![k].exit = "eof",
                                  ![k].aborted = TRUE]
  /\ OnlyPair

\* The caller aborts session k's controller.
PairAbort(k) ==
  /\ sessions[k].pc = "read"
  /\ ~sessions[k].aborted
  /\ sessions' = [sessions EXCEPT ![k].aborted = TRUE, ![k].callerAborted = TRUE]
  /\ OnlyPair

\* Session k's pending read rejects with the AbortError: catch, finally.
PairAborted(k) ==
  /\ sessions[k].pc = "read"
  /\ sessions[k].aborted
  /\ sessions' = [sessions EXCEPT ![k].pc = "done", ![k].exit = "AbortError"]
  /\ OnlyPair

NextPair ==
  \E k \in {1, 2} :
    \/ \E n \in 1..Len(sessions[k].stream) : PairRead(k, n)
    \/ PairDone(k)
    \/ PairAbort(k)
    \/ PairAborted(k)

SpecPair == InitPair /\ [][NextPair]_vars

SpecLive == Spec /\ WF_vars(Next)

\* C15: provided the transport answers every pending await, every session
\* reaches DONE (parseStreaming returns), whatever the content and the chunking
\* of the stream, and no callback is invoked after DONE.
C15_ReachesDone ==
  /\ <>(pc = "done")
  /\ [][pc = "done" => UNCHANGED calls]_vars

\* A session whose sources never resolved (the loop continued at line 71 on
\* every chunk) has returned at end-of-stream.
C15_DoneUnresolved ==
  /\ pc = "done"
  /\ exit = "eof"
  /\ ~sourcesProcessed
  /\ includes(buffer, LLM_SPLIT)

\* The positions of the onMarkdown calls in a sequence of calls.
Markdowns(cs) == {i \in 1..Len(cs) : cs[i].cb = "onMarkdown"}

\* C16: the content before sentinel B is emitted as one final increment: once
\* sentinel B is in the buffer (the content before it was passed to onMarkdown
\* by the step that put it there), no later step of the session passes
\* anything to onMarkdown, also while the related-questions payload is still
\* arriving.
C16_ContentOnce ==
  [][(variant = "single" /\ includes(buffer, RELATED_SPLIT))
       => Markdowns(calls') = Markdowns(calls)]_vars

\* The positions of the onSources, onMarkdown and onRelates calls.
Deliveries(cs) == {i \in 1..Len(cs) : cs[i].cb # "onError"}

\* C17: once onRelates has been invoked the segment is closed: no later step
\* of the session invokes onMarkdown, onSources or onRelates again, whatever
\* the transport delivers afterwards.
C17_ClosedAfterRelates ==
  [][(\E i \in 1..Len(calls) : calls[i].cb = "onRelates")
       => Deliveries(calls') = Deliveries(calls)]_vars

\* C18: the sources are marked resolved only by a step that invokes onSources,
\* and onSources is invoked at most once: a single-stream session whose
\* sourcesProcessed flag is set has made exactly one onSources call, and no
\* session has made more than one.
C18_ResolvedWithSources ==
  variant = "single"
    => /\ Cardinality(CallsOf("onSources")) <= 1
       /\ sourcesProcessed => Cardinality(CallsOf("onSources")) = 1

\* The chunk a step of the read loop receives.
Arrived == SubSeq(stream, pos + 1, pos')

\* C19: while the sources are unresolved, a step of the read loop after which
\* sentinel A is in the buffer while the text left of it does not parse as
\* JSON consumes nothing and emits nothing: the buffer is the previous buffer
\* followed by the chunk, sourcesProcessed is still false, and no callback was
\* invoked.
C19_FailedParseKeepsInput ==
  [][(/\ variant = "single"
      /\ pos' > pos
      /\ ~sourcesProcessed
      /\ includes(buffer \o Arrived, LLM_SPLIT)
      /\ ~JSONParse(Before(buffer \o Arrived, LLM_SPLIT)).ok)
       => /\ buffer' = buffer \o Arrived
          /\ ~sourcesProcessed'
          /\ calls' = calls]_vars

\* The parse failed on every chunk: the stream that starts with sentinel A is
\* held in the buffer whole, with nothing emitted.
C19_HeldAfterRetry ==
  /\ variant = "single"
  /\ stream = LLM_SPLIT \o REC_RAW
  /\ exit = ""
  /\ pos = Len(stream)
  /\ buffer = stream
  /\ ~sourcesProcessed
  /\ calls = <<>>

\* C20: a complete answer record that does not parse as JSON reaches
\* onMarkdown as the record's text followed by one newline, unmodified, for
\* every chunking: in a session whose answer segment is one raw record, every
\* onMarkdown payload is that record, newline included.
C20_RawPassThrough ==
  \A r \in {REC_RAW, REC_RAW_CITED} :
    \A tail \in {<<>>, RELATED_SPLIT \o REL_ONE, RELATED_SPLIT \o REL_OPEN,
                 RELATED_SPLIT \o SRC_EMPTY} :
      (variant = "single" /\ stream = SRC_EMPTY \o LLM_SPLIT \o r \o tail)
        => \A i \in CallsOf("onMarkdown") : calls[i].v = r

\* The payload of the call c holds the text pat.
Carries(c, pat) ==
  IF c.cb = "onError" THEN FALSE
  ELSE IF c.cb = "onRelates" THEN \E k \in 1..Len(c.v) : includes(c.v[k], pat)
  ELSE includes(c.v, pat)

\* Sentinel A occurs in s exactly once.
OneSentinelA(s) == includes(s, LLM_SPLIT) /\ ~includes(After(s, LLM_SPLIT), LLM_SPLIT)

C22_NothingHeldAtEnd ==
  (/\ variant = "single"
   /\ exit = "eof"
   /\ sourcesProcessed
   /\ ~includes(stream, RELATED_SPLIT))
    => trim(buffer) = <<>>
====
